---- MODULE Spec2Model ----
(***************************************************************************)
(* A model of src/bright.js (BrightMode.apply and its helpers).            *)
(*                                                                         *)
(* A JavaScript string is a sequence of one-character strings, so that     *)
(* splitting, trimming, escaping and measuring are computed character by   *)
(* character as the code (and the regular expressions it uses) compute     *)
(* them.  Lengths are integers, in tenths of a CSS pixel (Px(n) is n px),  *)
(* so that fontSize * 1.4 and lineHeight * 0.6 are integers too.  The      *)
(* host's text measurement (CanvasRenderingContext2D.measureText) is the   *)
(* sum of the advance widths of the characters of the string.  The         *)
(* computed style and the bounding box of the content element are the      *)
(* host's and do not change during a behaviour.                            *)
(***************************************************************************)
EXTENDS Integers, Sequences, FiniteSets, TLC

VARIABLES
    containerPresent,   \* document.getElementById(containerId) resolves
    contentPresent,     \* document.getElementById(contentId) resolves
    containerBrightText,\* container.dataset.brightText (<<>> when absent)
    contentBrightText,  \* content.dataset.brightText (<<>> when absent)
    textContent,        \* content.textContent
    style,              \* the mask properties of content.style
    canvas,             \* measureContext.canvas has been created
    warnings,           \* the console.warn lines, oldest first
    env,                \* computed style and bounding box of the content element
    options,            \* the options object the caller passes to apply()
    loaded,             \* DOMContentLoaded has fired
    calls,              \* calls of BrightMode.apply made by external code
    last,               \* what the last call of apply() saw and did
    pc,                 \* position of the driver of the pure functions
    arg,                \* argument of the pure function under check
    out                 \* its result

vars == << containerPresent, contentPresent, containerBrightText, contentBrightText,
           textContent, style, canvas, warnings, env, options, loaded, calls,
           last, pc, arg, out >>

dom == << containerPresent, contentPresent, containerBrightText, contentBrightText,
          textContent, style, warnings, env, options, loaded, calls, last >>

-----------------------------------------------------------------------------
(* Bounds of the model.                                                    *)

MaxLen == 6        \* longest text handed to wrapLines on its own
MaxEscLen == 4     \* longest line handed to escapeXml on its own
MaxTextLen == 4    \* longest initial textContent of the content element
MaxManualLen == 4  \* longest textLines string
MaxEntries == 2    \* most entries of a textLines list
MaxCalls == 2      \* calls of BrightMode.apply by external code in one behaviour

Px(n) == 10 * n

-----------------------------------------------------------------------------
(* Strings.                                                                *)

NL == "\n"

\* the characters /\s/ matches and String.prototype.trim strips
IsSpace(c) == c \in {" ", "\n", "\t", "\r"}

RECURSIVE trimStart(_)
trimStart(s) == IF s # <<>> /\ IsSpace(Head(s)) THEN trimStart(Tail(s)) ELSE s

RECURSIVE trimEnd(_)
trimEnd(s) ==
    IF s # <<>> /\ IsSpace(s[Len(s)]) THEN trimEnd(SubSeq(s, 1, Len(s) - 1)) ELSE s

trim(s) == trimEnd(trimStart(s))

\* /\s/.test(s)
HasSpace(s) == \E i \in 1..Len(s) : IsSpace(s[i])

\* Array.prototype.join
RECURSIVE join(_, _)
join(lines, sep) ==
    IF lines = <<>> THEN <<>>
    ELSE IF Len(lines) = 1 THEN lines[1]
    ELSE lines[1] \o sep \o join(Tail(lines), sep)

\* lines.filter(line => line.length || keepEmpty)
RECURSIVE filterLines(_, _)
filterLines(lines, keepEmpty) ==
    IF lines = <<>> THEN <<>>
    ELSE (IF Len(Head(lines)) > 0 \/ keepEmpty THEN <<Head(lines)>> ELSE <<>>)
         \o filterLines(Tail(lines), keepEmpty)

\* s.split(/\r?\n/): cur is the piece being read, acc the pieces before it
RECURSIVE splitNewlineFrom(_, _, _)
splitNewlineFrom(s, cur, acc) ==
    IF s = <<>> THEN acc \o <<cur>>
    ELSE IF Head(s) = NL
         THEN splitNewlineFrom(Tail(s), <<>>,
                  acc \o << IF cur # <<>> /\ cur[Len(cur)] = "\r"
                            THEN SubSeq(cur, 1, Len(cur) - 1) ELSE cur >>)
         ELSE splitNewlineFrom(Tail(s), cur \o <<Head(s)>>, acc)

splitNewline(s) == splitNewlineFrom(s, <<>>, <<>>)

\* s.split(/(\s+)/): words and the whitespace runs between them, alternating,
\* starting and ending with a (possibly empty) word
RECURSIVE splitSpaceFrom(_, _, _, _)
splitSpaceFrom(s, cur, curIsSpace, acc) ==
    IF s = <<>> THEN acc \o <<cur>> \o (IF curIsSpace THEN << <<>> >> ELSE <<>>)
    ELSE IF IsSpace(Head(s)) = curIsSpace
         THEN splitSpaceFrom(Tail(s), cur \o <<Head(s)>>, curIsSpace, acc)
         ELSE splitSpaceFrom(Tail(s), <<Head(s)>>, ~curIsSpace, acc \o <<cur>>)

splitSpace(s) == splitSpaceFrom(s, <<>>, FALSE, <<>>)

\* Array.from(s)
arrayFrom(s) == [i \in 1..Len(s) |-> <<s[i]>>]

\* all strings over the alphabet of length at most n
RECURSIVE StringsOfLen(_, _)
StringsOfLen(alphabet, n) ==
    IF n = 0 THEN {<<>>}
    ELSE {s \o <<c>> : s \in StringsOfLen(alphabet, n - 1), c \in alphabet}

Strings(alphabet, n) == UNION {StringsOfLen(alphabet, k) : k \in 0..n}

\* the texts apply() hands to wrapLines: trimmed and not empty
SourceTexts(alphabet, n) == {s \in Strings(alphabet, n) : s # <<>> /\ trim(s) = s}

-----------------------------------------------------------------------------
(* Text measurement.                                                       *)

\* advance width of one glyph of the live font, in px
Advance(c) == IF c = "b" THEN Px(2) ELSE Px(1)

RECURSIVE measureText(_)
measureText(s) == IF s = <<>> THEN 0 ELSE Advance(Head(s)) + measureText(Tail(s))

Max(a, b) == IF a >= b THEN a ELSE b

-----------------------------------------------------------------------------
(* wrapLines                                                               *)

maxWidthOf(metrics) == Max(metrics.width - Px(4), Px(1))

\* mutant of tokenize: every segment is cut into characters
tokenizeChars(rawLine) == arrayFrom(rawLine)

tokenize(rawLine) == IF HasSpace(rawLine) THEN splitSpace(rawLine) ELSE arrayFrom(rawLine)

\* mutant of breaksBefore: a line that exactly fills maxWidth is broken too
breaksBeforeAtLimit(tentative, current, maxWidth) ==
    measureText(tentative) >= maxWidth /\ Len(trim(current)) > 0

\* mutant of startLine: the token that did not fit is lost
startLineEmpty(token) == <<>>

\* the test that commits the current buffer as a line
breaksBefore(tentative, current, maxWidth) ==
    measureText(tentative) > maxWidth /\ Len(trim(current)) > 0

\* the buffer a new line starts with
startLine(token) == trimStart(token)

\* tokens.forEach(...) followed by result.push(current)
RECURSIVE wrapTokens(_, _, _, _)
wrapTokens(tokens, current, result, maxWidth) ==
    IF tokens = <<>> THEN result \o <<current>>
    ELSE LET token == Head(tokens)
             tentative == current \o token
         IN  IF token = <<>> THEN wrapTokens(Tail(tokens), current, result, maxWidth)
             ELSE IF breaksBefore(tentative, current, maxWidth)
                  THEN wrapTokens(Tail(tokens), startLine(token),
                                  result \o <<current>>, maxWidth)
                  ELSE wrapTokens(Tail(tokens), tentative, result, maxWidth)

\* rawLines.forEach(...)
RECURSIVE wrapRawLines(_, _, _)
wrapRawLines(rawLines, result, maxWidth) ==
    IF rawLines = <<>> THEN result
    ELSE LET rawLine == Head(rawLines) IN
         IF rawLine = <<>>
         THEN wrapRawLines(Tail(rawLines), result \o << <<>> >>, maxWidth)
         ELSE wrapRawLines(Tail(rawLines),
                           wrapTokens(tokenize(rawLine), <<>>, result, maxWidth),
                           maxWidth)

\* rawLines.includes('')
includesEmpty(rawLines) == \E i \in 1..Len(rawLines) : rawLines[i] = <<>>

wrapLines(text, metrics) ==
    LET rawLines == splitNewline(text)
        result == wrapRawLines(rawLines, <<>>, maxWidthOf(metrics))
    IN  filterLines(result, includesEmpty(rawLines))

-----------------------------------------------------------------------------
(* escapeXml                                                               *)

\* str.replace(/c/g, by)
RECURSIVE replaceAll(_, _, _)
replaceAll(str, c, by) ==
    IF str = <<>> THEN <<>>
    ELSE (IF Head(str) = c THEN by ELSE <<Head(str)>>) \o replaceAll(Tail(str), c, by)

AmpEntity == <<"&", "a", "m", "p", ";">>
LtEntity == <<"&", "l", "t", ";">>
GtEntity == <<"&", "g", "t", ";">>
QuotEntity == <<"&", "q", "u", "o", "t", ";">>
AposEntity == <<"&", "#", "3", "9", ";">>

\* mutant of escapeXml: '&' is replaced last, after the entities are in place
escapeXmlAmpLast(str) ==
    replaceAll(replaceAll(replaceAll(replaceAll(replaceAll(str,
        "<", LtEntity), ">", GtEntity), "\"", QuotEntity), "'", AposEntity),
        "&", AmpEntity)

escapeXml(str) ==
    replaceAll(replaceAll(replaceAll(replaceAll(replaceAll(str,
        "&", AmpEntity), "<", LtEntity), ">", GtEntity), "\"", QuotEntity),
        "'", AposEntity)

-----------------------------------------------------------------------------
(* normalizeLines                                                          *)

\* options.textLines: not given, a list of strings, or one string
Undefined == [kind |-> "undefined", items |-> <<>>, value |-> <<>>]
ArrayOf(items) == [kind |-> "array", items |-> items, value |-> <<>>]
StringOf(value) == [kind |-> "string", items |-> <<>>, value |-> value]

\* s.split(/\r?\n|\|/)
RECURSIVE splitNewlineOrPipeFrom(_, _, _)
splitNewlineOrPipeFrom(s, cur, acc) ==
    IF s = <<>> THEN acc \o <<cur>>
    ELSE IF Head(s) = NL
         THEN splitNewlineOrPipeFrom(Tail(s), <<>>,
                  acc \o << IF cur # <<>> /\ cur[Len(cur)] = "\r"
                            THEN SubSeq(cur, 1, Len(cur) - 1) ELSE cur >>)
         ELSE IF Head(s) = "|"
              THEN splitNewlineOrPipeFrom(Tail(s), <<>>, acc \o <<cur>>)
              ELSE splitNewlineOrPipeFrom(Tail(s), cur \o <<Head(s)>>, acc)

splitNewlineOrPipe(s) == splitNewlineOrPipeFrom(s, <<>>, <<>>)

\* lines.map(line => line.trim())
mapTrim(lines) == [i \in 1..Len(lines) |-> trim(lines[i])]

\* mutant of normalizeLines: the entries are not trimmed
normalizeLinesUntrimmed(source) ==
    IF source.kind = "undefined" \/ (source.kind = "string" /\ source.value = <<>>)
    THEN <<>>
    ELSE IF source.kind = "array" THEN filterLines(source.items, FALSE)
    ELSE filterLines(splitNewlineOrPipe(source.value), FALSE)

normalizeLines(source) ==
    IF source.kind = "undefined" \/ (source.kind = "string" /\ source.value = <<>>)
    THEN <<>>
    ELSE IF source.kind = "array" THEN filterLines(mapTrim(source.items), FALSE)
    ELSE filterLines(mapTrim(splitNewlineOrPipe(source.value)), FALSE)

-----------------------------------------------------------------------------
(* getMetrics and buildMask                                                *)

\* env holds what the host reports for the content element: fontSize and
\* lineHeight of the computed style (fontSize 0 when it does not parse,
\* lineHeight either "normal" or a length), the font, and the box (0 when
\* the element has no box)
getMetrics(element) ==
    LET fontSize == IF element.fontSize # 0 THEN element.fontSize ELSE Px(16)
        lineHeight == IF element.lineHeightNormal THEN (fontSize * 14) \div 10
                      ELSE element.lineHeight
    IN  [ fontSize |-> fontSize,
          lineHeight |-> lineHeight,
          fontFamily |-> IF element.fontFamily # "" THEN element.fontFamily
                         ELSE "'Arial Black', sans-serif",
          fontWeight |-> IF element.fontWeight # "" THEN element.fontWeight ELSE "600",
          width |-> IF element.width # 0 THEN element.width
                    ELSE IF element.offsetWidth # 0 THEN element.offsetWidth
                    ELSE Px(800),
          height |-> IF element.height # 0 THEN element.height
                     ELSE IF element.offsetHeight # 0 THEN element.offsetHeight
                     ELSE lineHeight * 2 ]

\* the image: the svg document the data URL encodes (encodeURIComponent is
\* one-to-one), with y in hundredths of a pixel
buildMask(lines, metrics) ==
    LET width == Max(metrics.width, Px(1))
        lineHeight == IF metrics.lineHeight # 0 THEN metrics.lineHeight
                      ELSE (metrics.fontSize * 14) \div 10
        height == IF metrics.height # 0 THEN metrics.height
                  ELSE Max(lineHeight * Len(lines), lineHeight)
        startY == Max(5 * (height - lineHeight * (Len(lines) - 1)), 6 * lineHeight)
        tspans == [idx \in 1..Len(lines) |->
                      [ x |-> 5 * width,
                        y |-> startY + (idx - 1) * 10 * lineHeight,
                        text |-> escapeXml(lines[idx]) ]]
    IN  [ dataUrl |-> [ width |-> width, height |-> height,
                        fontFamily |-> metrics.fontFamily,
                        fontSize |-> metrics.fontSize,
                        fontWeight |-> metrics.fontWeight,
                        tspans |-> tspans ],
          width |-> width,
          height |-> height ]

NoImage ==
    [ width |-> 0, height |-> 0, fontFamily |-> "", fontSize |-> 0, fontWeight |-> "",
      tspans |-> <<>> ]

\* content.style before any call
NoStyle ==
    [ mask |-> NoImage, webkitMask |-> NoImage,
      maskSize |-> <<0, 0>>, webkitMaskSize |-> <<0, 0>>,
      maskRepeat |-> "", webkitMaskRepeat |-> "",
      maskPosition |-> "", webkitMaskPosition |-> "" ]

-----------------------------------------------------------------------------
(* apply                                                                   *)

\* mutant of elementMissing: the call goes on unless both elements are missing
elementMissingBoth(container, content) == ~container /\ ~content

\* !container || !content
elementMissing(container, content) == ~container \/ ~content

\* the source text when no textLines are given
pickSource(contentData, containerData, text) ==
    IF contentData # <<>> THEN contentData
    ELSE IF containerData # <<>> THEN containerData
    ELSE text

Before ==
    [ textContent |-> textContent, style |-> style, canvas |-> canvas,
      warnings |-> Len(warnings) ]

NoCall ==
    [ outcome |-> "none", textLines |-> Undefined, repeat |-> FALSE,
      before |-> [ textContent |-> <<>>, style |-> NoStyle, canvas |-> FALSE,
                   warnings |-> 0 ],
      sourceText |-> <<>>, lines |-> <<>> ]

Called(opts, outcome, sourceText, lines) ==
    [ outcome |-> outcome, textLines |-> opts.textLines,
      repeat |-> (last.outcome # "none" /\ last.textLines = opts.textLines),
      before |-> Before, sourceText |-> sourceText, lines |-> lines ]

\* one call of apply(opts), from its first line to its return (or to the
\* TypeError a property read of null raises)
apply(opts) ==
    LET manualLines == normalizeLines(opts.textLines)
        sourceText == trim(pickSource(contentBrightText, containerBrightText,
                                      textContent))
        metrics == getMetrics(env)
        lines == IF manualLines # <<>> THEN manualLines
                 ELSE wrapLines(sourceText, metrics)
        image == buildMask(lines,
                    [metrics EXCEPT !.height =
                        IF metrics.height # 0 THEN metrics.height
                        ELSE metrics.lineHeight * Len(lines) + metrics.lineHeight])
    IN
    IF elementMissing(containerPresent, contentPresent)
    THEN /\ warnings' = Append(warnings, "[BrightMode] container or content not found")
         /\ last' = Called(opts, "MissingElement", <<>>, <<>>)
         /\ UNCHANGED << textContent, style, canvas >>
    ELSE IF \/ ~contentPresent
            \/ (~containerPresent /\ manualLines = <<>> /\ contentBrightText = <<>>)
    THEN /\ last' = Called(opts, "TypeError", <<>>, <<>>)
         /\ UNCHANGED << textContent, style, canvas, warnings >>
    ELSE IF manualLines = <<>> /\ sourceText = <<>>
    THEN /\ warnings' = Append(warnings, "[BrightMode] no text provided")
         /\ last' = Called(opts, "EmptyText", sourceText, <<>>)
         /\ UNCHANGED << textContent, style, canvas >>
    ELSE /\ textContent' = join(lines, <<NL>>)
         /\ canvas' = (canvas \/ manualLines = <<>>)
         /\ style' = [ mask |-> image.dataUrl, webkitMask |-> image.dataUrl,
                       maskSize |-> <<image.width, image.height>>,
                       webkitMaskSize |-> <<image.width, image.height>>,
                       maskRepeat |-> "no-repeat", webkitMaskRepeat |-> "no-repeat",
                       maskPosition |-> "center", webkitMaskPosition |-> "center" ]
         /\ last' = Called(opts, "rendered",
                           IF manualLines = <<>> THEN sourceText ELSE <<>>, lines)
         /\ UNCHANGED warnings

\* external code calls BrightMode.apply(options)
Apply ==
    /\ pc = "page"
    /\ calls < MaxCalls
    /\ calls' = calls + 1
    /\ apply(options)
    /\ UNCHANGED << containerPresent, contentPresent, containerBrightText,
                    contentBrightText, env, options, loaded, pc, arg, out >>

\* the DOMContentLoaded listener
DOMContentLoaded ==
    /\ pc = "page"
    /\ ~loaded
    /\ loaded' = TRUE
    /\ IF containerPresent /\ contentPresent
       THEN apply([textLines |-> Undefined])
       ELSE UNCHANGED << textContent, style, canvas, warnings, last >>
    /\ UNCHANGED << containerPresent, contentPresent, containerBrightText,
                    contentBrightText, env, options, calls, pc, arg, out >>

Next == Apply \/ DOMContentLoaded

\* the pages and callers of the behaviours checked
TextAlphabet == {"a", " "}

Boxes ==
    { [ width |-> Px(5), offsetWidth |-> Px(5), height |-> 0, offsetHeight |-> 0,
        lineHeightNormal |-> FALSE, lineHeight |-> Px(20), fontSize |-> Px(10), fontFamily |-> "Arial",
        fontWeight |-> "700" ],
      [ width |-> Px(6), offsetWidth |-> Px(6), height |-> Px(30),
        offsetHeight |-> Px(30), lineHeightNormal |-> TRUE, lineHeight |-> 0, fontSize |-> Px(10),
        fontFamily |-> "Arial", fontWeight |-> "700" ],
      [ width |-> 0, offsetWidth |-> Px(6), height |-> 0, offsetHeight |-> Px(30),
        lineHeightNormal |-> FALSE, lineHeight |-> Px(20), fontSize |-> 0, fontFamily |-> "", fontWeight |-> "" ],
      [ width |-> 0, offsetWidth |-> 0, height |-> 0, offsetHeight |-> 0,
        lineHeightNormal |-> TRUE, lineHeight |-> 0, fontSize |-> Px(10), fontFamily |-> "Arial",
        fontWeight |-> "700" ] }

\* the data-bright-text attributes: absent, blank, or a text
DataTexts == {<<>>, <<" ">>, <<"a">>, <<"a", "a", " ", "a">>}

\* the entries of a textLines list
Entries == {<<>>, <<" ">>, <<"a">>, <<" ", "a">>, <<"a", " ", "a">>, <<"a", NL, "a">>}

Idle ==
    /\ style = NoStyle
    /\ canvas = FALSE
    /\ warnings = <<>>
    /\ loaded = FALSE
    /\ calls = 0
    /\ last = NoCall
    /\ pc = "page"
    /\ arg = [text |-> <<>>, width |-> 0]
    /\ out = <<>>

Init ==
    /\ containerPresent \in BOOLEAN
    /\ contentPresent \in BOOLEAN
    /\ containerBrightText \in DataTexts
    /\ contentBrightText \in DataTexts
    /\ textContent \in Strings(TextAlphabet, MaxTextLen)
    /\ env \in Boxes
    /\ options \in {[textLines |-> Undefined], [textLines |-> ArrayOf(<< <<"a", " ", "a">> >>)]}
    /\ Idle

Spec == Init /\ [][Next]_vars

\* callers that pass textLines
ManualAlphabet == {"a", " ", "|", NL}

RECURSIVE ListsOf(_, _)
ListsOf(S, n) ==
    IF n = 0 THEN {<<>>} ELSE {l \o <<x>> : l \in ListsOf(S, n - 1), x \in S}

ManualOptions ==
    {[textLines |-> StringOf(v)] : v \in Strings(ManualAlphabet, MaxManualLen)}
    \cup {[textLines |-> ArrayOf(l)] :
            l \in UNION {ListsOf(Entries, k) : k \in 0..MaxEntries}}

InitManual ==
    /\ containerPresent = TRUE
    /\ contentPresent = TRUE
    /\ containerBrightText \in {<<>>, <<"b">>}
    /\ contentBrightText = <<>>
    /\ textContent \in {<<>>, <<"b", " ", "b">>}
    /\ env \in {b \in Boxes : b.width # 0}
    /\ options \in ManualOptions
    /\ Idle

SpecManual == InitManual /\ [][Next]_vars

-----------------------------------------------------------------------------
(* The pure functions on their own: wrapLines.                             *)

WrapAlphabet == {"a", "b", " ", NL}

WrapWidths == {Px(5), Px(6), Px(7), Px(9)}

DomIdle ==
    /\ containerPresent = FALSE
    /\ contentPresent = FALSE
    /\ containerBrightText = <<>>
    /\ contentBrightText = <<>>
    /\ textContent = <<>>
    /\ style = NoStyle
    /\ warnings = <<>>
    /\ env = [ width |-> 0, offsetWidth |-> 0, height |-> 0, offsetHeight |-> 0,
               lineHeightNormal |-> TRUE, lineHeight |-> 0, fontSize |-> 0, fontFamily |-> "",
               fontWeight |-> "" ]
    /\ options = [textLines |-> Undefined]
    /\ loaded = FALSE
    /\ calls = 0
    /\ last = NoCall

InitWrap ==
    /\ DomIdle
    /\ canvas = FALSE
    /\ pc = "call"
    /\ arg \in [text : SourceTexts(WrapAlphabet, MaxLen), width : WrapWidths]
    /\ out = <<>>

CallWrapLines ==
    /\ pc = "call"
    /\ out' = wrapLines(arg.text, arg)
    /\ canvas' = TRUE
    /\ pc' = "done"
    /\ UNCHANGED << dom, arg >>

NextWrap == CallWrapLines

SpecWrap == InitWrap /\ [][NextWrap]_vars

-----------------------------------------------------------------------------
(* The pure functions on their own: escapeXml, as buildMask uses it.       *)

EscapeAlphabet == {"&", "<", ">", "\"", "'", ";", "l", "t"}

InitEscape ==
    /\ DomIdle
    /\ canvas = FALSE
    /\ pc = "call"
    /\ arg \in [text : Strings(EscapeAlphabet, MaxEscLen),
                 box : {b \in Boxes : b.width = Px(5)}]
    /\ out = <<>>

\* buildMask([text], getMetrics(content)); out is the text of its one tspan
CallBuildMask ==
    /\ pc = "call"
    /\ out' = buildMask(<<arg.text>>, getMetrics(arg.box)).dataUrl.tspans[1].text
    /\ pc' = "done"
    /\ UNCHANGED << dom, canvas, arg >>

NextEscape == CallBuildMask

SpecEscape == InitEscape /\ [][NextEscape]_vars

-----------------------------------------------------------------------------
(* Properties of wrapLines.                                                *)

HasNewline(s) == \E i \in 1..Len(s) : s[i] = NL

AllSpace(s) == \A i \in 1..Len(s) : IsSpace(s[i])

RECURSIVE StripSpace(_)
StripSpace(s) ==
    IF s = <<>> THEN <<>>
    ELSE (IF IsSpace(Head(s)) THEN <<>> ELSE <<Head(s)>>) \o StripSpace(Tail(s))

RECURSIVE Flatten(_)
Flatten(xs) == IF xs = <<>> THEN <<>> ELSE Head(xs) \o Flatten(Tail(xs))

IsPrefix(p, s) == Len(p) <= Len(s) /\ SubSeq(s, 1, Len(p)) = p

Drop(s, n) == SubSeq(s, n + 1, Len(s))

\* s is the lines in order, the first at the very start of s and the last at
\* its end, with nothing but whitespace between one line and the next
RECURSIVE Covers(_, _, _)
Covers(s, lines, maxGap) ==
    IF lines = <<>> THEN s = <<>>
    ELSE \E k \in 0..(IF maxGap < Len(s) THEN maxGap ELSE Len(s)) :
            /\ AllSpace(SubSeq(s, 1, k))
            /\ IsPrefix(Head(lines), Drop(s, k))
            /\ Covers(Drop(s, k + Len(Head(lines))), Tail(lines), Len(s))

\* C1 as stated: a non-empty text narrower than the container width comes
\* back as one line, the trimmed text.
C1_NarrowerThanContainer ==
    (pc = "done" /\ arg.text # <<>> /\ measureText(arg.text) < arg.width)
        => out = << trim(arg.text) >>

\* C1, amended: a non-empty text with no newline whose measured width is at
\* most maxWidth = max(width - 4, 1) comes back as exactly one line, the text
\* itself.
C1_FitsMaxWidth ==
    (pc = "done" /\ arg.text # <<>> /\ ~HasNewline(arg.text)
        /\ measureText(arg.text) <= maxWidthOf(arg))
        => out = << arg.text >>

C1_Witness ==
    /\ pc = "done"
    /\ Len(arg.text) >= 3 /\ HasSpace(arg.text) /\ ~HasNewline(arg.text)
    /\ arg.text = trim(arg.text)
    /\ measureText(arg.text) = maxWidthOf(arg)
    /\ out = << arg.text >>

\* C2: wrapLines neither drops nor duplicates characters: the non-whitespace
\* characters of the output lines, in order, are those of the input, and the
\* input is the output lines in order with only whitespace (the places where
\* a line was broken) between them.
C2_NoCharacterLost ==
    pc = "done" =>
        /\ StripSpace(Flatten(out)) = StripSpace(arg.text)
        /\ Covers(arg.text, out, 0)

C2_Witness ==
    /\ pc = "done"
    /\ Len(out) >= 3
    /\ ~HasNewline(arg.text)
    /\ Len(Flatten(out)) < Len(arg.text)
    /\ \E i \in 1..Len(out) : HasSpace(out[i])

\* the lines one segment gives: an explicit empty segment one empty line, any
\* other segment its wrapped lines without the empty ones
RECURSIVE BlankLayout(_, _)
BlankLayout(rawLines, maxWidth) ==
    IF rawLines = <<>> THEN <<>>
    ELSE (IF Head(rawLines) = <<>> THEN << <<>> >>
          ELSE filterLines(wrapTokens(tokenize(Head(rawLines)), <<>>, <<>>, maxWidth),
                           FALSE))
         \o BlankLayout(Tail(rawLines), maxWidth)

\* C3: the output has an empty line exactly for each explicit empty segment of
\* the input, in the segment's place; an empty line that wrapping a non-empty
\* segment produced is filtered out.
C3_EmptyOnlyWhereExplicit ==
    pc = "done" => out = BlankLayout(splitNewline(arg.text), maxWidthOf(arg))

\* the tokens of the text that are not whitespace, in order: the words of a
\* segment that holds whitespace, the characters of one that holds none
RECURSIVE WordsFrom(_, _)
WordsFrom(s, cur) ==
    IF s = <<>> THEN (IF cur = <<>> THEN <<>> ELSE <<cur>>)
    ELSE IF IsSpace(Head(s))
         THEN (IF cur = <<>> THEN <<>> ELSE <<cur>>) \o WordsFrom(Tail(s), <<>>)
         ELSE WordsFrom(Tail(s), cur \o <<Head(s)>>)

RECURSIVE InkTokens(_)
InkTokens(rawLines) ==
    IF rawLines = <<>> THEN <<>>
    ELSE (IF HasSpace(Head(rawLines)) THEN WordsFrom(Head(rawLines), <<>>)
          ELSE [i \in 1..Len(Head(rawLines)) |-> << Head(rawLines)[i] >>])
         \o InkTokens(Tail(rawLines))

\* every line is a run of whole tokens
RECURSIVE Grouped(_, _)
Grouped(tokens, lines) ==
    IF lines = <<>> THEN tokens = <<>>
    ELSE \E k \in 0..Len(tokens) :
            /\ Flatten(SubSeq(tokens, 1, k)) = StripSpace(Head(lines))
            /\ Grouped(Drop(tokens, k), Tail(lines))

\* C10: no token is split across two lines; a line wider than maxWidth is one
\* token (after its leading whitespace), and a token wider than maxWidth is
\* such a line.
C10_TokensWhole ==
    pc = "done" =>
        LET tokens == InkTokens(splitNewline(arg.text))
            maxWidth == maxWidthOf(arg)
        IN  /\ Grouped(tokens, out)
            /\ \A i \in 1..Len(out) :
                  measureText(out[i]) > maxWidth =>
                     \/ trimStart(out[i]) = <<>>
                     \/ \E j \in 1..Len(tokens) : trimStart(out[i]) = tokens[j]
            /\ \A j \in 1..Len(tokens) :
                  measureText(tokens[j]) > maxWidth =>
                     \E i \in 1..Len(out) : trimStart(out[i]) = tokens[j]

C10_Witness ==
    /\ pc = "done"
    /\ Len(out) >= 3
    /\ \E i \in 1..Len(out) :
          /\ measureText(out[i]) > maxWidthOf(arg)
          /\ measureText(trimStart(out[i])) > maxWidthOf(arg)
          /\ trimStart(out[i]) # out[i]
    /\ \E i \in 1..Len(out) : measureText(out[i]) <= maxWidthOf(arg) /\ out[i] # <<>>

-----------------------------------------------------------------------------
(* Properties of escapeXml.                                                *)

EntityOf(c) ==
    CASE c = "&" -> AmpEntity
      [] c = "<" -> LtEntity
      [] c = ">" -> GtEntity
      [] c = "\"" -> QuotEntity
      [] c = "'" -> AposEntity

Markup == {"&", "<", ">", "\"", "'"}

\* an XML reader's decoding of the five entities, left to right
RECURSIVE Decode(_)
Decode(s) ==
    IF s = <<>> THEN <<>>
    ELSE IF \E c \in Markup : IsPrefix(EntityOf(c), s)
         THEN LET c == CHOOSE c \in Markup : IsPrefix(EntityOf(c), s)
              IN  <<c>> \o Decode(Drop(s, Len(EntityOf(c))))
         ELSE <<Head(s)>> \o Decode(Tail(s))

\* C9: the escaped text of a line holds no raw < > " ', each & in it begins
\* one of the five entities, and decoding the entities gives the line back.
C9_EscapedOnce ==
    pc = "done" =>
        /\ \A i \in 1..Len(out) : out[i] \notin {"<", ">", "\"", "'"}
        /\ \A i \in 1..Len(out) :
              out[i] = "&" => \E c \in Markup : IsPrefix(EntityOf(c), Drop(out, i - 1))
        /\ Decode(out) = arg.text

C9_Witness ==
    /\ pc = "done"
    /\ arg.text = <<"&", "l", "t", ";">>
    /\ out = <<"&", "a", "m", "p", ";", "l", "t", ";">>

-----------------------------------------------------------------------------
(* Properties of apply.                                                    *)

TspanTexts(image) == [i \in 1..Len(image.tspans) |-> image.tspans[i].text]

Untouched ==
    /\ textContent = last.before.textContent
    /\ style = last.before.style
    /\ canvas = last.before.canvas

\* C4 (the part about apply): when the content element has no measured
\* height, the mask apply() installs is at least one lineHeight high and at
\* least as high as its lines stacked.
C4_HeightCoversLines ==
    (last.outcome = "rendered" /\ env.height = 0 /\ env.offsetHeight = 0)
        => /\ style.mask.height >= getMetrics(env).lineHeight
           /\ style.mask.height >= Len(last.lines) * getMetrics(env).lineHeight

\* C5: a call with the container or the content element missing logs one
\* warning and returns: no exception, and the text, the style and the
\* measurement surface are as before the call.
C5_MissingElementNoEffect ==
    (last.outcome # "none" /\ (~containerPresent \/ ~contentPresent))
        => /\ last.outcome = "MissingElement"
           /\ Untouched
           /\ Len(warnings) = last.before.warnings + 1
           /\ warnings[Len(warnings)] = "[BrightMode] container or content not found"

C5_Witness ==
    /\ last.outcome = "MissingElement"
    /\ containerPresent /\ ~contentPresent
    /\ containerBrightText # <<>>
    /\ options.textLines # Undefined
    /\ calls = 2

Usable(t) == trim(t) # <<>>

\* C6: with both elements and no usable textLines, apply() aborts as EmptyText
\* (a warning, nothing changed) exactly when none of the content element's
\* data attribute, the container's data attribute and the content element's
\* text is non-empty after trimming; otherwise it renders from the first of
\* the three that is.
C6_EmptyTextOnlyWhenNoSource ==
    (last.outcome \in {"EmptyText", "rendered"} /\ last.textLines = Undefined)
        => LET text == last.before.textContent
               best == IF Usable(contentBrightText) THEN contentBrightText
                       ELSE IF Usable(containerBrightText) THEN containerBrightText
                       ELSE text
           IN  /\ (last.outcome = "EmptyText") <=> ~Usable(best)
               /\ last.outcome = "EmptyText" =>
                     Untouched /\ Len(warnings) = last.before.warnings + 1
               /\ last.outcome = "rendered" =>
                     /\ last.sourceText = trim(best)
                     /\ last.lines = wrapLines(trim(best), getMetrics(env))

\* the entries textLines holds: those of a list, or the pieces of a string
\* between its newlines and '|'
Cuts(s) == {0, Len(s) + 1} \cup {i \in 1..Len(s) : s[i] \in {NL, "|"}}

NthCut(s, n) == CHOOSE c \in Cuts(s) : Cardinality({d \in Cuts(s) : d < c}) = n - 1

Pieces(s) ==
    [n \in 1..(Cardinality(Cuts(s)) - 1) |->
        SubSeq(s, NthCut(s, n) + 1, NthCut(s, n + 1) - 1)]

Supplied(textLines) ==
    IF textLines.kind = "array" THEN textLines.items
    ELSE IF textLines.kind = "string" THEN Pieces(textLines.value)
    ELSE <<>>

\* s without the whitespace at its two ends
Trimmed(s) ==
    LET ink == {i \in 1..Len(s) : ~IsSpace(s[i])}
    IN  IF ink = {} THEN <<>>
        ELSE SubSeq(s, CHOOSE i \in ink : \A j \in ink : i <= j,
                       CHOOSE i \in ink : \A j \in ink : i >= j)

NotEmpty(s) == s # <<>>

SuppliedLines(textLines) ==
    SelectSeq([i \in 1..Len(Supplied(textLines)) |-> Trimmed(Supplied(textLines)[i])],
              NotEmpty)

\* C7: when textLines holds at least one entry that is not blank, the lines
\* rendered (the text of the content element and the lines of the mask) are
\* its entries, trimmed, without the empty ones, in order - not wrapped,
\* whatever the width, the data attributes and the text were.
C7_ManualLinesAsSupplied ==
    (last.outcome # "none" /\ SuppliedLines(last.textLines) # <<>>)
        => LET lines == SuppliedLines(last.textLines)
           IN  /\ last.outcome = "rendered"
               /\ last.lines = lines
               /\ textContent = join(lines, <<NL>>)
               /\ TspanTexts(style.mask) = [i \in 1..Len(lines) |-> escapeXml(lines[i])]

C7_Witness ==
    /\ last.outcome = "rendered"
    /\ last.textLines.kind = "string"
    /\ Len(last.lines) = 2
    /\ \E i \in 1..2 : measureText(last.lines[i]) > maxWidthOf(getMetrics(env))
    /\ containerBrightText # <<>>
    /\ last.before.textContent # <<>>

\* C8: a call of apply() that follows a call with the same options leaves the
\* text of the content element and the lines of its mask as they were.
C8_SecondApplySame ==
    last.repeat
        => /\ textContent = last.before.textContent
           /\ TspanTexts(style.mask) = TspanTexts(last.before.style.mask)

====
